---- MODULE Spec2Model ----
(***************************************************************************)
(* Model of simulation/monte_carlo.py (Proof-of-Action economic model):    *)
(* the logistic population, the per-period mint/burn/supply/reward step of *)
(* simulate_single_run, numpy's process-wide random generator, and the     *)
(* batch loop and the statistics of run_monte_carlo.                       *)
(*                                                                         *)
(* Numbers.  Inside a run every quantity is an exact rational <<n, d>>     *)
(* (d > 0, lowest terms).  The growth rate r is represented by e^r, an     *)
(* integer, so that exp(-r*(t - t0)) is an exact rational for the integer  *)
(* t and t0 the program uses.  The statistics of run_monte_carlo are       *)
(* folded with IEEE-754 round-to-nearest-even arithmetic at a reduced      *)
(* precision (Precision bits of significand), because the order of a       *)
(* floating-point fold is what the statistics' claims are about.           *)
(*                                                                         *)
(* Random generator.  np.random is one global state <<stream, pos>>: the   *)
(* stream a seed selects and the number of normal deviates taken from it.  *)
(* The k-th standard normal deviate of a stream is a fixed but unknown     *)
(* value: gen records it the first time it is drawn (any value of Normals) *)
(* and every later draw at the same <<stream, pos>> returns the same one.  *)
(***************************************************************************)
EXTENDS Integers, Sequences, FiniteSets, TLC

\* ---------------------------------------------------------------- bounds
MaxSteps == 3       \* longest horizon T_STEPS explored
MaxRuns == 1        \* largest N_SIMULATIONS explored
MaxSeed == 1        \* largest seed a client passes
MaxCalls == 3       \* calls of simulate_single_run made by a client
MaxThreads == 2     \* threads that may be inside simulate_single_run
MaxOther == 1       \* deviates other code draws from np.random at a time
StatRuns == 3       \* trajectories of a batch whose statistics are compared
Precision == 3      \* bits of significand of the floating-point format

\* seed=None (monte_carlo.py:54); also the stream of the unseeded generator
NoSeed == -1

\* standard normal deviates the generator may return (scaled to integers)
Normals == {-3, 1}

\* ------------------------------------------------------------- rationals
Abs(x) == IF x < 0 THEN -x ELSE x

RECURSIVE Gcd(_, _)
Gcd(a, b) == IF b = 0 THEN a ELSE Gcd(b, a % b)

\* the rational n/d in lowest terms with a positive denominator (d # 0)
Rat(n, d) ==
    LET g == Gcd(Abs(n), Abs(d))
        s == IF d < 0 THEN -1 ELSE 1
    IN  <<(s * n) \div g, (s * d) \div g>>

Int2Rat(n) == <<n, 1>>
Zero == <<0, 1>>
One == <<1, 1>>

RAdd(a, b) == Rat(a[1] * b[2] + b[1] * a[2], a[2] * b[2])
RSub(a, b) == Rat(a[1] * b[2] - b[1] * a[2], a[2] * b[2])
RMul(a, b) == Rat(a[1] * b[1], a[2] * b[2])
\* a / b, b # 0
RDiv(a, b) == Rat(a[1] * b[2], a[2] * b[1])
RLess(a, b) == a[1] * b[2] < b[1] * a[2]
RLeq(a, b) == a[1] * b[2] <= b[1] * a[2]

\* Python's max(0, x) and np.maximum(0, x)
Max0(x) == IF RLess(x, Zero) THEN Zero ELSE x

\* Python's int(x) for x >= 0: truncation
Trunc(x) == x[1] \div x[2]

RECURSIVE Pow(_, _)
Pow(b, e) == IF e = 0 THEN 1 ELSE b * Pow(b, e - 1)

\* the rational a to the integer power e >= 0
RPow(a, e) == Rat(Pow(a[1], e), Pow(a[2], e))

RECURSIVE SumSeq(_)
\* np.sum of a sequence of rationals (0 for the empty array)
SumSeq(s) == IF s = <<>> THEN Zero ELSE RAdd(s[1], SumSeq(Tail(s)))

\* ------------------------------------------------------------ parameters
\* The module-level parameters (monte_carlo.py:23-45).  E_GROWTH is
\* e^r_GROWTH_RATE, a rational.
Configs ==
    [ T_STEPS : 1..MaxSteps,
      K_MAX_USERS : {2, 3},
      E_GROWTH : {<<3, 2>>},
      t0_INFLECTION : {2},
      mu_MINT : {2},
      sigma_MINT : {0, 1},
      mu_BURN_INITIAL : {1, 5},
      sigma_BURN : {0, 1},
      S0_INITIAL_SUPPLY : {0, 2},
      R0_INITIAL_REWARD : {2},
      ALPHA_ADAPTATION : {0, 1} ]

\* ------------------------------------------------------------ GrowthModel
\* exp(-r * x) for an integer x, with er = e^r
ExpNeg(er, x) == IF x >= 0 THEN RDiv(One, RPow(er, x)) ELSE RPow(er, -x)

\* logistic_growth(t, K, r, t0) = K / (1 + exp(-r * (t - t0)))
logistic_growth(t, K, er, t0) ==
    RDiv(Int2Rat(K), RAdd(One, ExpNeg(er, t - t0)))

\* ---------------------------------------------------------------- state
VARIABLES
    cfg,    \* the module-level parameters, fixed for a run of the program
    rng,    \* np.random's global state: [stream, pos]
    gen,    \* the deviates drawn so far: <<stream, pos>> -> value
    act,    \* per thread: the activation of simulate_single_run
    mc,     \* the activation of run_monte_carlo
    out,    \* the (seed, trajectory) pairs returned to a client so far
    calls   \* number of calls of simulate_single_run a client has made

vars == <<cfg, rng, gen, act, mc, out, calls>>

Threads == 1..MaxThreads
Main == 1
Periods(c) == 0..(c.T_STEPS - 1)

\* ------------------------------------------------------------ np.random
\* np.random.seed(seed), line 60
Seeded(seed) == [stream |-> seed, pos |-> 0]

\* The generator's state when the program starts: seeded by the system.
Unseeded == [stream |-> NoSeed, pos |-> 0]

\* the keys of the cnt deviates that follow state g
Keys(g, cnt) == {<<g.stream, g.pos + k>> : k \in 1..cnt}

\* zs can be the next Len(zs) deviates at state g: the ones drawn before repeat
Consistent(g, zs) ==
    \A k \in 1..Len(zs) :
        <<g.stream, g.pos + k>> \in DOMAIN gen => zs[k] = gen[<<g.stream, g.pos + k>>]

\* the table after the deviates zs were drawn at state g
Drawn(g, zs) ==
    [key \in DOMAIN gen \cup Keys(g, Len(zs)) |->
        IF key \in DOMAIN gen THEN gen[key] ELSE zs[key[2] - g.pos]]

\* the generator after cnt deviates were taken
Advance(g, cnt) == [g EXCEPT !.pos = g.pos + cnt]

\* np.random.normal(mu, sigma, n): mu + sigma * z for each deviate z
Normal(mu, sigma, zs) ==
    [k \in 1..Len(zs) |-> RAdd(mu, RMul(sigma, Int2Rat(zs[k])))]

\* ------------------------------------------------------------ PeriodStepper
\* the samples left as drawn: the clamp to zero forgotten
ClampSamplesMissing(samples) == samples

\* np.maximum(0, samples), lines 77 and 83
ClampSamples(samples) == [k \in 1..Len(samples) |-> Max0(samples[k])]

\* line 82: mu_BURN_INITIAL * (1 + ALPHA_ADAPTATION * (supply[t-1] / (n_t + 1)))
BurnMean(c, prev, n_t) ==
    RMul(Int2Rat(c.mu_BURN_INITIAL),
         RAdd(One, RMul(Int2Rat(c.ALPHA_ADAPTATION),
                        RDiv(prev, RAdd(n_t, One)))))

\* the supply without its floor at zero: the deficit is carried forward
NextSupplyUnfloored(prev, M_t, B_t) == RSub(RAdd(prev, M_t), B_t)

\* lines 87-88: max(0, supply[t-1] + M_t - B_t)
NextSupply(prev, M_t, B_t) == Max0(RSub(RAdd(prev, M_t), B_t))

\* the burn/mint ratio not scaled by the base reward
RewardUnscaled(c, M_t, B_t) ==
    IF RLess(Zero, M_t) THEN RDiv(B_t, M_t) ELSE Int2Rat(c.R0_INITIAL_REWARD)

\* lines 96-99
Reward(c, M_t, B_t) ==
    IF RLess(Zero, M_t)
    THEN RMul(Int2Rat(c.R0_INITIAL_REWARD), RDiv(B_t, M_t))
    ELSE Int2Rat(c.R0_INITIAL_REWARD)

\* a write that also lands on the period before
StorePeriodAndBefore(arr, t, v) == [arr EXCEPT ![t] = v, ![t - 1] = v]

\* supply[t] = v, mint_total[t] = v, ...: only period t is written
StorePeriod(arr, t, v) == [arr EXCEPT ![t] = v]

\* the population rounded to the nearest integer instead of truncated
SampleCountRounded(n_t) == (2 * n_t[1] + n_t[2]) \div (2 * n_t[2])

\* the population rounded up instead of truncated
SampleCountCeiling(n_t) == (n_t[1] + n_t[2] - 1) \div n_t[2]

\* int(n_t): the size of each sample array
SampleCount(n_t) == Trunc(n_t)

\* One iteration of the loop of lines 73-99 on activation a, the generator
\* being in state g and returning the deviates zs (mint first, then burn).
LoopBody(c, a, g, zs) ==
    LET t == a.t
        n_t == a.users[t]
        n == SampleCount(n_t)
        mint_per_user ==
            ClampSamples(Normal(Int2Rat(c.mu_MINT), Int2Rat(c.sigma_MINT),
                                SubSeq(zs, 1, n)))
        M_t == SumSeq(mint_per_user)
        mu_burn_adaptive == BurnMean(c, a.supply[t - 1], n_t)
        burn_per_user ==
            ClampSamples(Normal(mu_burn_adaptive, Int2Rat(c.sigma_BURN),
                                SubSeq(zs, n + 1, 2 * n)))
        B_t == SumSeq(burn_per_user)
    IN  [a EXCEPT
            !.t = t + 1,
            !.supply = StorePeriod(a.supply, t, NextSupply(a.supply[t - 1], M_t, B_t)),
            !.mint_total = StorePeriod(a.mint_total, t, M_t),
            !.burn_total = StorePeriod(a.burn_total, t, B_t),
            !.rewards = StorePeriod(a.rewards, t, Reward(c, M_t, B_t)),
            !.mu_burn = StorePeriod(a.mu_burn, t, mu_burn_adaptive),
            !.mint_per_user = StorePeriod(a.mint_per_user, t, mint_per_user),
            !.burn_per_user = StorePeriod(a.burn_per_user, t, burn_per_user),
            !.from = StorePeriod(a.from, t, g)]

\* ------------------------------------------------------------ RunSimulator
\* no activation
Idle ==
    [pc |-> "idle", seed |-> NoSeed, t |-> 0, users |-> <<>>, supply |-> <<>>,
     mint_total |-> <<>>, burn_total |-> <<>>, rewards |-> <<>>,
     mu_burn |-> <<>>, mint_per_user |-> <<>>, burn_per_user |-> <<>>,
     from |-> <<>>]

\* lines 62-71: the arrays as allocated, period 0 set, the loop about to start.
\* mu_burn, mint_per_user, burn_per_user and from keep, per period, the
\* loop's locals and the generator state the period drew from.
NewRun(c, seed) ==
    [pc |-> "loop", seed |-> seed, t |-> 1,
     users |-> [t \in Periods(c) |->
                  logistic_growth(t, c.K_MAX_USERS, c.E_GROWTH, c.t0_INFLECTION)],
     supply |-> [t \in Periods(c) |->
                   IF t = 0 THEN Int2Rat(c.S0_INITIAL_SUPPLY) ELSE Zero],
     mint_total |-> [t \in Periods(c) |-> Zero],
     burn_total |-> [t \in Periods(c) |-> Zero],
     rewards |-> [t \in Periods(c) |-> Int2Rat(c.R0_INITIAL_REWARD)],
     mu_burn |-> [t \in Periods(c) |-> Zero],
     mint_per_user |-> [t \in Periods(c) |-> <<>>],
     burn_per_user |-> [t \in Periods(c) |-> <<>>],
     from |-> [t \in Periods(c) |-> Unseeded]]

\* the generator left as it is: the seed ignored
SeedGeneratorSkipped(g, seed) == g

\* lines 59-60
SeedGenerator(g, seed) == IF seed # NoSeed THEN Seeded(seed) ELSE g

\* line 101: the tuple returned
Trajectory(a) ==
    [supply |-> a.supply, users |-> a.users, mint_total |-> a.mint_total,
     burn_total |-> a.burn_total, rewards |-> a.rewards]

\* simulate_single_run(seed) is entered by thread th: lines 59-71
Begin(th, seed) ==
    /\ act[th].pc = "idle"
    /\ rng' = SeedGenerator(rng, seed)
    /\ act' = [act EXCEPT ![th] = NewRun(cfg, seed)]
    /\ UNCHANGED <<cfg, gen>>

\* thread th leaves simulate_single_run: its locals are gone
Leave(th) == act' = [act EXCEPT ![th] = Idle]

\* thread th runs one iteration of the loop, lines 73-99
Step(th) ==
    /\ act[th].pc = "loop"
    /\ act[th].t < cfg.T_STEPS
    /\ LET n == SampleCount(act[th].users[act[th].t])
       IN  \E zs \in [1..(2 * n) -> Normals] :
              /\ Consistent(rng, zs)
              /\ gen' = Drawn(rng, zs)
              /\ rng' = Advance(rng, 2 * n)
              /\ act' = [act EXCEPT ![th] = LoopBody(cfg, act[th], rng, zs)]
    /\ UNCHANGED <<cfg, mc, out, calls>>

\* thread th is at the return of line 101
AtReturn(th) == act[th].pc = "loop" /\ act[th].t >= cfg.T_STEPS

\* ------------------------------------------------- floating-point numbers
\* The float result of an operation with no value (0/0): nan
NaN == <<0, 0>>
IsNaN(x) == x[2] = 0

\* n/d, a whole number plus a fraction, rounded to the nearest whole number,
\* ties to the even one (n >= 0, d > 0)
RoundHalfEven(n, d) ==
    LET q == n \div d
        r == n % d
    IN  IF 2 * r < d THEN q
        ELSE IF 2 * r > d THEN q + 1
        ELSE IF q % 2 = 0 THEN q ELSE q + 1

\* a significand m has Precision bits: MinSig <= m < MaxSig
MinSig == Pow(2, Precision - 1)
MaxSig == Pow(2, Precision)

RECURSIVE FlScaled(_, _, _)
\* n/d > 0 rounded to Precision significant bits: the significand times 2^e
FlScaled(n, d, e) ==
    IF n < MinSig * d THEN FlScaled(2 * n, d, e - 1)
    ELSE IF n >= MaxSig * d THEN FlScaled(n, 2 * d, e + 1)
    ELSE LET m == RoundHalfEven(n, d)
         IN  IF e >= 0 THEN Int2Rat(m * Pow(2, e)) ELSE Rat(m, Pow(2, -e))

\* the float nearest to the rational x (round to nearest, ties to even)
Fl(x) ==
    IF IsNaN(x) THEN NaN
    ELSE IF x[1] = 0 THEN Zero
    ELSE IF x[1] > 0 THEN FlScaled(x[1], x[2], 0)
    ELSE LET y == FlScaled(-x[1], x[2], 0) IN <<-y[1], y[2]>>

FAdd(a, b) == IF IsNaN(a) \/ IsNaN(b) THEN NaN ELSE Fl(RAdd(a, b))
FSub(a, b) == IF IsNaN(a) \/ IsNaN(b) THEN NaN ELSE Fl(RSub(a, b))
FMul(a, b) == IF IsNaN(a) \/ IsNaN(b) THEN NaN ELSE Fl(RMul(a, b))
\* a / b; 0/0 is nan (b = 0 arises only so)
FDiv(a, b) ==
    IF IsNaN(a) \/ IsNaN(b) \/ b[1] = 0 THEN NaN ELSE Fl(RDiv(a, b))

RECURSIVE ISqrt(_, _)
\* the largest k >= from with k * k <= n
ISqrt(n, from) == IF (from + 1) * (from + 1) > n THEN from ELSE ISqrt(n, from + 1)

RECURSIVE SqrtScaled(_, _, _)
\* sqrt(n/d), n/d > 0, rounded to Precision significant bits
SqrtScaled(n, d, e) ==
    IF n < MinSig * MinSig * d THEN SqrtScaled(4 * n, d, e - 1)
    ELSE IF n >= MaxSig * MaxSig * d THEN SqrtScaled(n, 4 * d, e + 1)
    ELSE LET k == ISqrt(n \div d, MinSig)
             \* k <= sqrt(n/d) < k + 1; round up iff (k + 1/2)^2 < n/d
             m == IF (2 * k + 1) * (2 * k + 1) * d < 4 * n THEN k + 1 ELSE k
         IN  IF e >= 0 THEN Int2Rat(m * Pow(2, e)) ELSE Rat(m, Pow(2, -e))

\* np.sqrt of a float >= 0
FSqrt(x) ==
    IF IsNaN(x) THEN NaN
    ELSE IF x[1] = 0 THEN Zero
    ELSE SqrtScaled(x[1], x[2], 0)

\* ------------------------------------------------------- the statistics
RECURSIVE FSumFrom(_, _)
\* np.add.reduce along axis 0: the rows are added one after the other
FSumFrom(acc, col) ==
    IF col = <<>> THEN acc ELSE FSumFrom(FAdd(acc, Head(col)), Tail(col))

\* np.mean(column): the sum of the column, in the order stored, over its size
Mean(col) ==
    IF col = <<>> THEN NaN
    ELSE FDiv(FSumFrom(Fl(Head(col)), Tail(col)), Int2Rat(Len(col)))

\* np.std(column): sqrt(mean(|x - mean(x)|^2))
Std(col) ==
    LET m == Mean(col)
        dev == [k \in 1..Len(col) |-> FSub(Fl(col[k]), m)]
        sq == [k \in 1..Len(col) |-> FMul(dev[k], dev[k])]
    IN  FSqrt(Mean(sq))

RECURSIVE Insert(_, _)
\* x put into the ascending sequence s
Insert(x, s) ==
    IF s = <<>> THEN <<x>>
    ELSE IF RLeq(x, Head(s)) THEN <<x>> \o s
    ELSE <<Head(s)>> \o Insert(x, Tail(s))

\* the column as stored: the order statistics read without sorting
Unsorted(col) == col

RECURSIVE Sorted(_)
\* the column in ascending order (np.partition puts the order statistics
\* the percentile reads at their sorted places)
Sorted(col) == IF col = <<>> THEN <<>> ELSE Insert(Head(col), Sorted(Tail(col)))

\* numpy's linear interpolation between two order statistics
Lerp(a, b, g) ==
    IF a = b THEN a
    ELSE IF RLess(g, <<1, 2>>) THEN FAdd(a, FMul(FSub(b, a), g))
    ELSE FSub(b, FMul(FSub(b, a), FSub(One, g)))

\* np.percentile(column, q), linear interpolation between order statistics
Percentile(col, q) ==
    IF col = <<>> THEN NaN
    ELSE LET xs == Sorted([k \in 1..Len(col) |-> Fl(col[k])])
             vi == FMul(Int2Rat(Len(col) - 1), FDiv(Int2Rat(q), Int2Rat(100)))
             lo == Trunc(vi)
             hi == IF lo + 1 > Len(col) - 1 THEN Len(col) - 1 ELSE lo + 1
         IN  Lerp(xs[lo + 1], xs[hi + 1], FSub(vi, Int2Rat(lo)))

\* column t of the rows, in the order the rows are stored
Column(rows, t) == [k \in 1..Len(rows) |-> rows[k][t]]

\* lines 127-132, on the rows stored (sequences of per-period arrays)
Statistics(c, supplies, rewards) ==
    [mean_supply |-> [t \in Periods(c) |-> Mean(Column(supplies, t))],
     std_supply |-> [t \in Periods(c) |-> Std(Column(supplies, t))],
     percentile_5 |-> [t \in Periods(c) |-> Percentile(Column(supplies, t), 5)],
     percentile_95 |-> [t \in Periods(c) |-> Percentile(Column(supplies, t), 95)],
     mean_reward |-> [t \in Periods(c) |-> Mean(Column(rewards, t))]]

\* ------------------------------------------------------- run_monte_carlo
NoStats ==
    [mean_supply |-> <<>>, std_supply |-> <<>>, percentile_5 |-> <<>>,
     percentile_95 |-> <<>>, mean_reward |-> <<>>]

\* run_monte_carlo not running
NoBatch ==
    [pc |-> "none", N |-> 0, i |-> 0, all_supplies |-> <<>>, all_rewards |-> <<>>,
     users |-> <<>>, stats |-> NoStats, computed |-> {}, err |-> ""]

\* run_monte_carlo entered with N_SIMULATIONS = n (line 23)
Batch(n) == [NoBatch EXCEPT !.pc = "start", !.N = n]

\* all_supplies[i] = supply
StoreRow(rows, i, row) == [rows EXCEPT ![i + 1] = row]

\* np.zeros((N_SIMULATIONS, T_STEPS)); row i of the code is row i + 1 here
ZeroRows(c, n) == [k \in 1..n |-> [t \in Periods(c) |-> Zero]]

\* lines 107-116: np.zeros raises ValueError for a negative dimension
MC_Alloc ==
    /\ mc.pc = "start"
    /\ mc' = IF mc.N < 0
             THEN [mc EXCEPT !.pc = "error", !.err = "ValueError"]
             ELSE [mc EXCEPT !.pc = "loop", !.i = 0,
                             !.all_supplies = ZeroRows(cfg, mc.N),
                             !.all_rewards = ZeroRows(cfg, mc.N)]
    /\ UNCHANGED <<cfg, rng, gen, act, out, calls>>

\* lines 118-122: the next run is entered with seed=i
MC_Call ==
    /\ mc.pc = "loop"
    /\ mc.i < mc.N
    /\ Begin(Main, mc.i)
    /\ UNCHANGED <<mc, out, calls>>

\* lines 122-124: the run returns and its supply and rewards are stored
MC_Store ==
    /\ mc.pc = "loop"
    /\ AtReturn(Main)
    /\ mc' = [mc EXCEPT
                !.all_supplies = StoreRow(mc.all_supplies, mc.i, act[Main].supply),
                !.all_rewards = StoreRow(mc.all_rewards, mc.i, act[Main].rewards),
                !.users = act[Main].users,
                !.i = mc.i + 1]
    /\ Leave(Main)
    /\ UNCHANGED <<cfg, rng, gen, out, calls>>

AllStats == {"mean_supply", "std_supply", "percentile_5", "percentile_95", "mean_reward"}

\* lines 127-132.  Of an empty batch np.mean and np.std are nan (with a
\* warning); np.percentile is nan or raises, depending on the numpy build.
MC_Stats ==
    /\ mc.pc = "loop"
    /\ mc.i >= mc.N
    /\ act[Main].pc = "idle"
    /\ \/ mc' = [mc EXCEPT !.pc = "report", !.computed = AllStats,
                           !.stats = Statistics(cfg, mc.all_supplies, mc.all_rewards)]
       \/ /\ mc.N = 0
          /\ mc' = [mc EXCEPT
                      !.pc = "error", !.err = "IndexError",
                      !.computed = {"mean_supply", "std_supply"},
                      !.stats = [NoStats EXCEPT
                          !.mean_supply = [t \in Periods(cfg) |-> NaN],
                          !.std_supply = [t \in Periods(cfg) |-> NaN]]]
    /\ UNCHANGED <<cfg, rng, gen, act, out, calls>>

\* lines 134-143: the report is printed and the tuple returned; time and
\* users are locals the loop assigns, unbound when the loop never ran
MC_Return ==
    /\ mc.pc = "report"
    /\ mc' = IF mc.users = <<>>
             THEN [mc EXCEPT !.pc = "error", !.err = "UnboundLocalError"]
             ELSE [mc EXCEPT !.pc = "done"]
    /\ UNCHANGED <<cfg, rng, gen, act, out, calls>>

\* ------------------------------------------------------- the program
InitShared ==
    /\ cfg \in Configs
    /\ rng = Unseeded
    /\ gen = <<>>
    /\ act = [th \in Threads |-> Idle]
    /\ out = <<>>
    /\ calls = 0

\* main(): run_monte_carlo with some N_SIMULATIONS
Init ==
    /\ InitShared
    /\ mc \in {Batch(n) : n \in -1..MaxRuns}

Next ==
    \/ MC_Alloc
    \/ MC_Call
    \/ Step(Main)
    \/ MC_Store
    \/ MC_Stats
    \/ MC_Return

Spec == Init /\ [][Next]_vars

\* ------------------------------------------- a client replaying runs
\* seeds a client passes: none, or a run index
Seeds == {NoSeed} \cup (0..MaxSeed)

\* result = simulate_single_run(seed), entered from the main thread
ClientCall(seed) ==
    /\ calls < MaxCalls
    /\ Begin(Main, seed)
    /\ calls' = calls + 1
    /\ UNCHANGED <<mc, out>>

\* the call returns; out keeps the activation returned from
ClientReturn ==
    /\ AtReturn(Main)
    /\ out' = Append(out, act[Main])
    /\ Leave(Main)
    /\ UNCHANGED <<cfg, rng, gen, mc, calls>>

\* Between two calls other code of the process draws from np.random.  The
\* guard on pos keeps the draws finite: a stream is left at most MaxOther
\* deviates further than the runs left it.
OtherDraw ==
    /\ act[Main].pc = "idle"
    /\ rng.pos < MaxOther
    /\ \E zs \in [1..MaxOther -> Normals] :
          /\ Consistent(rng, zs)
          /\ gen' = Drawn(rng, zs)
          /\ rng' = Advance(rng, MaxOther)
    /\ UNCHANGED <<cfg, act, mc, out, calls>>

\* The parameters under which the draws decide the trajectory; the horizon
\* of two periods (one stepped) keeps the histories of several calls finite
\* enough to enumerate.
Stochastic(c) ==
    /\ c.T_STEPS = 2
    /\ c.sigma_MINT > 0
    /\ c.sigma_BURN > 0

InitReplay ==
    /\ InitShared
    /\ Stochastic(cfg)
    /\ mc = NoBatch

NextReplay ==
    \/ \E seed \in Seeds : ClientCall(seed)
    \/ Step(Main)
    \/ ClientReturn
    \/ OtherDraw

SpecReplay == InitReplay /\ [][NextReplay]_vars

\* ------------------------------------------- runs on several threads
\* thread th enters simulate_single_run(seed=i) for a run index i
ThreadCall(th, seed) ==
    /\ calls < MaxCalls
    /\ Begin(th, seed)
    /\ calls' = calls + 1
    /\ UNCHANGED <<mc, out>>

ThreadReturn(th) ==
    /\ AtReturn(th)
    /\ out' = Append(out, act[th])
    /\ Leave(th)
    /\ UNCHANGED <<cfg, rng, gen, mc, calls>>

NextThreads ==
    \/ \E th \in Threads, seed \in 0..MaxSeed : ThreadCall(th, seed)
    \/ \E th \in Threads : Step(th)
    \/ \E th \in Threads : ThreadReturn(th)

SpecThreads == InitReplay /\ [][NextThreads]_vars

\* ------------------------------------------- the statistics of a batch
\* floats a supply may be in a stepped period
SupplyValues == {Int2Rat(1), Int2Rat(2), Int2Rat(MaxSig)}

\* floats a reward may be in a stepped period
RewardValues == {Int2Rat(1), Int2Rat(MaxSig)}

\* trajectories a run may have returned: period 0 as lines 69 and 71 set it
StatRows(c, first, values) ==
    {row \in [Periods(c) -> values \cup {Int2Rat(first)}] :
        /\ row[0] = Int2Rat(first)
        /\ \A t \in Periods(c) : t > 0 => row[t] \in values}

\* run_monte_carlo after its loop stored StatRuns trajectories
InitStats ==
    /\ InitShared
    /\ Stochastic(cfg)
    /\ cfg.ALPHA_ADAPTATION = 1 /\ cfg.K_MAX_USERS = 3
    /\ cfg.mu_BURN_INITIAL = 1 /\ cfg.S0_INITIAL_SUPPLY = 0
    /\ \E supplies \in [1..StatRuns ->
                          StatRows(cfg, cfg.S0_INITIAL_SUPPLY, SupplyValues)],
          rewards \in [1..StatRuns ->
                          StatRows(cfg, cfg.R0_INITIAL_REWARD, RewardValues)] :
          mc = [Batch(StatRuns) EXCEPT
                  !.pc = "loop", !.i = StatRuns,
                  !.all_supplies = supplies, !.all_rewards = rewards,
                  !.users = NewRun(cfg, NoSeed).users]

NextStats ==
    \/ MC_Stats
    \/ MC_Return

SpecStats == InitStats /\ [][NextStats]_vars

\* =================================================================== claims
\* the activations of simulate_single_run, running or returned
Runs == {act[th] : th \in {x \in Threads : act[x].pc = "loop"}} \cup {out[k] : k \in DOMAIN out}

\* the periods of activation a the loop has computed
Stepped(a) == 1..(a.t - 1)

NonNeg(x) == x[2] > 0 /\ x[1] >= 0

\* the period's burn exceeded the supply it could burn: B_t > S_{t-1} + M_t
Deficit(a, t) == RLess(RAdd(a.supply[t - 1], a.mint_total[t]), a.burn_total[t])

\* C1: in every stepped period of every run, whatever the draws, the mint
\* total, the burn total and the supply are >= 0.
C1_NonNegative ==
    \A a \in Runs : \A t \in Stepped(a) :
        /\ NonNeg(a.mint_total[t])
        /\ NonNeg(a.burn_total[t])
        /\ NonNeg(a.supply[t])

\* a period where a draw fell below zero and one where the burn exceeded
\* the supply: both clamps acted
C1_Witness ==
    \E a \in Runs : \E t \in Stepped(a) :
        /\ Deficit(a, t)
        /\ \E u \in Stepped(a) : \E k \in DOMAIN a.mint_per_user[u] :
              /\ a.mint_per_user[u][k] = Zero
              /\ gen[<<a.from[u].stream, a.from[u].pos + k>>] < 0

\* the first period of a run without variance, adaptation or initial supply
ZeroVariance(a) ==
    /\ cfg.sigma_MINT = 0 /\ cfg.sigma_BURN = 0
    /\ cfg.ALPHA_ADAPTATION = 0 /\ cfg.S0_INITIAL_SUPPLY = 0
    /\ 1 \in Stepped(a)

\* C5 as claimed: supply[1] = userCount(1)*mu_mint - userCount(1)*mu_burn0 with
\* the real-valued population, and reward[1] = R0 * (mu_burn0 / mu_mint).
C5_AsClaimed ==
    \A a \in Runs :
        ZeroVariance(a) =>
            /\ a.supply[1] = RSub(RMul(a.users[1], Int2Rat(cfg.mu_MINT)),
                                  RMul(a.users[1], Int2Rat(cfg.mu_BURN_INITIAL)))
            /\ a.rewards[1] = Rat(cfg.R0_INITIAL_REWARD * cfg.mu_BURN_INITIAL, cfg.mu_MINT)

\* C5 amended: with n the population truncated to an integer,
\* supply[1] = max(0, n*mu_mint - n*mu_burn0), and reward[1] is
\* R0 * (mu_burn0 / mu_mint) when n >= 1 and R0 when n = 0.
C5_Truncated ==
    \A a \in Runs :
        ZeroVariance(a) =>
            LET n == a.users[1][1] \div a.users[1][2]
                d == n * cfg.mu_MINT - n * cfg.mu_BURN_INITIAL
            IN  /\ a.supply[1] = Int2Rat(IF d < 0 THEN 0 ELSE d)
                /\ a.rewards[1] = IF n >= 1
                                  THEN Rat(cfg.R0_INITIAL_REWARD * cfg.mu_BURN_INITIAL,
                                           cfg.mu_MINT)
                                  ELSE Int2Rat(cfg.R0_INITIAL_REWARD)

\* a zero-variance first period over a population that is no whole number
\* and has at least one user, minting more than it burns
C5_Witness ==
    \E a \in Runs :
        /\ ZeroVariance(a)
        /\ a.users[1][2] > 1
        /\ RLess(One, a.users[1])
        /\ cfg.mu_MINT > cfg.mu_BURN_INITIAL
        /\ a.rewards[1] # Int2Rat(cfg.R0_INITIAL_REWARD)

\* C6: in every stepped period, R_t = R0 when M_t = 0 and
\* R_t = R0 * B_t / M_t when M_t > 0 (so B_t = M_t gives R0): a function of the
\* period's own totals, not of an earlier reward.
C6_Reward ==
    \A a \in Runs : \A t \in Stepped(a) :
        /\ a.mint_total[t] = Zero => a.rewards[t] = Int2Rat(cfg.R0_INITIAL_REWARD)
        /\ RLess(Zero, a.mint_total[t]) =>
              /\ RMul(a.rewards[t], a.mint_total[t])
                    = RMul(Int2Rat(cfg.R0_INITIAL_REWARD), a.burn_total[t])
              /\ a.burn_total[t] = a.mint_total[t]
                    => a.rewards[t] = Int2Rat(cfg.R0_INITIAL_REWARD)

\* a period with users but no mint, after a period whose reward was not R0,
\* in a run that also had a period with B_t = M_t > 0
C6_Witness ==
    \E a \in Runs : \E t \in Stepped(a) :
        /\ t >= 2
        /\ a.rewards[t - 1] # Int2Rat(cfg.R0_INITIAL_REWARD)
        /\ a.mint_total[t] = Zero
        /\ SampleCount(a.users[t]) > 0
        /\ RLess(Zero, a.mint_total[t - 1])

\* the mint total of period t recomputed from the generator's deviates alone
MintFromDeviates(a, t) ==
    LET n == Len(a.mint_per_user[t])
    IN  SumSeq([k \in 1..n |->
            Max0(RAdd(Int2Rat(cfg.mu_MINT),
                      RMul(Int2Rat(cfg.sigma_MINT),
                           Int2Rat(gen[<<a.from[t].stream, a.from[t].pos + k>>]))))])

\* C7: whenever B_t > S_{t-1} + M_t the supply S_t is 0, and the deficit is
\* dropped: S_{t+1} = max(0, M_{t+1} - B_{t+1}), M_{t+1} is the sum of the
\* clamped samples alone, the burn mean of period t+1 is mu_burn0, and the
\* supply of every later period is >= 0.
C7_ClampAndDrop ==
    \A a \in Runs : \A t \in Stepped(a) :
        Deficit(a, t) =>
            /\ a.supply[t] = Zero
            /\ \A u \in Stepped(a) : u > t => NonNeg(a.supply[u])
            /\ (t + 1) \in Stepped(a) =>
                  /\ a.supply[t + 1]
                        = Max0(RSub(a.mint_total[t + 1], a.burn_total[t + 1]))
                  /\ a.mint_total[t + 1] = MintFromDeviates(a, t + 1)
                  /\ a.mu_burn[t + 1] = Int2Rat(cfg.mu_BURN_INITIAL)

\* a deficit in one period, and a next period with adaptation switched on
\* that mints and ends with a positive supply
C7_Witness ==
    \E a \in Runs : \E t \in Stepped(a) :
        /\ Deficit(a, t)
        /\ (t + 1) \in Stepped(a)
        /\ cfg.ALPHA_ADAPTATION > 0
        /\ RLess(Zero, a.mint_total[t + 1])
        /\ RLess(Zero, a.supply[t + 1])

\* C8: a period whose user count gives zero samples has M_t = 0 and B_t = 0,
\* leaves the supply unchanged and the reward at R0, and divides by zero
\* neither in the burn mean (denominator n_t + 1) nor in the reward.
C8_ZeroPopulation ==
    \A a \in Runs : \A t \in Stepped(a) :
        (a.users[t][1] \div a.users[t][2]) = 0 =>
            /\ a.mint_total[t] = Zero
            /\ a.burn_total[t] = Zero
            /\ a.supply[t] = a.supply[t - 1]
            /\ a.rewards[t] = Int2Rat(cfg.R0_INITIAL_REWARD)
            /\ a.mu_burn[t][2] > 0
            /\ a.rewards[t][2] > 0
            /\ RAdd(a.users[t], One)[1] > 0

\* a zero-sample period over a positive supply, with adaptation, the
\* population being a positive fraction below one
C8_Witness ==
    \E a \in Runs : \E t \in Stepped(a) :
        /\ (a.users[t][1] \div a.users[t][2]) = 0
        /\ a.users[t][1] > 0
        /\ RLess(Zero, a.supply[t - 1])
        /\ cfg.ALPHA_ADAPTATION > 0

\* the arrays of a trajectory
Arrays(a) == <<a.supply, a.mint_total, a.burn_total, a.rewards, a.users>>

\* the shape of a trajectory: horizon periods, period 0 fixed, each stepped
\* period's supply computed from the supply before it in the same run, the
\* periods not yet stepped as allocated
C9_Shape ==
    \A a \in Runs :
        /\ \A k \in 1..Len(Arrays(a)) : DOMAIN Arrays(a)[k] = 0..(cfg.T_STEPS - 1)
        /\ a.t \in 1..cfg.T_STEPS
        /\ a.supply[0] = Int2Rat(cfg.S0_INITIAL_SUPPLY)
        /\ a.rewards[0] = Int2Rat(cfg.R0_INITIAL_REWARD)
        /\ a.mint_total[0] = Zero /\ a.burn_total[0] = Zero
        /\ a.mint_per_user[0] = <<>> /\ a.burn_per_user[0] = <<>>
        /\ (a.seed # NoSeed /\ 1 \in Stepped(a)) => a.from[1] = [stream |-> a.seed, pos |-> 0]
        /\ \A t \in Stepped(a) :
              a.supply[t] = Max0(RSub(RAdd(a.supply[t - 1], a.mint_total[t]),
                                      a.burn_total[t]))
        /\ \A t \in (a.t)..(cfg.T_STEPS - 1) :
              a.mint_total[t] = Zero /\ a.burn_total[t] = Zero

\* a step of a running activation computes exactly the next period and
\* leaves every period computed before as it was
C9_Step ==
    \A th \in Threads :
        (act[th].pc = "loop" /\ act'[th].pc = "loop" /\ act'[th] # act[th]) =>
            /\ act'[th].t = act[th].t + 1
            /\ \A u \in 0..(act[th].t - 1) : \A k \in 1..Len(Arrays(act[th])) :
                  Arrays(act'[th])[k][u] = Arrays(act[th])[k][u]

\* C9: every trajectory has exactly horizon periods; period 0 is fixed at
\* supply = S0, reward = R0, mint = burn = 0 and draws no sample; the periods
\* 1..horizon-1 are computed in increasing order, each from supply[t-1] of the
\* same run, and a period once written is never modified.
C9_Sequential == [][C9_Step]_vars /\ []C9_Shape

\* a run at its return, all periods of the longest horizon computed, its
\* supply having changed in each
C9_Witness ==
    \E a \in Runs :
        /\ cfg.T_STEPS = MaxSteps
        /\ a.t = cfg.T_STEPS
        /\ \A t \in Stepped(a) : a.supply[t] # a.supply[t - 1]

\* C4: a run count <= 0 is rejected before any run executes and before any
\* statistic is computed.
C4_RejectedBeforeStatistics ==
    mc.N <= 0 =>
        /\ mc.computed = {}
        /\ mc.stats = NoStats
        /\ mc.pc # "done"
        /\ act[Main].pc = "idle"

\* C2: two calls of simulate_single_run with the same seed return identical
\* trajectories, whatever runs and draws happened between them.
C2_Reproducible ==
    \A i, j \in DOMAIN out :
        (out[i].seed = out[j].seed /\ out[i].seed # NoSeed) =>
            Trajectory(out[i]) = Trajectory(out[j])

\* two returned runs of one seed whose draws mattered, with a run of
\* another seed or of no seed between them, the generator having been
\* somewhere else when the second began
C2_Witness ==
    \E i, j, k \in DOMAIN out :
        /\ i < j /\ j < k
        /\ out[i].seed = out[k].seed /\ out[i].seed # NoSeed
        /\ out[j].seed # out[i].seed
        /\ Trajectory(out[j]) # Trajectory(out[i])
        /\ out[i].mint_per_user[1] # <<>>

\* Every period of the run that drew samples drew them from the stream of
\* the run's own seed, at the place the run itself had reached in it.  It
\* holds of the sequential batch (Spec) and fails once runs interleave.
OwnSource(a) ==
    \A t \in Stepped(a) :
        a.mint_per_user[t] # <<>> =>
            /\ a.from[t].stream = a.seed
            /\ a.from[t].pos
                  = SumSeq([u \in 1..(t - 1) |-> Int2Rat(2 * Len(a.mint_per_user[u]))])[1]

RunsOwnTheirSource == \A a \in Runs : OwnSource(a)

\* C3: the runs of a batch share no mutable state: the trajectory of the run
\* with seed i is the same whether the runs execute one after another, in
\* another order or interleaved; no run's random source is read or re-seeded
\* by another run.
C3_Independent ==
    \A i, j \in DOMAIN out :
        out[i].seed = out[j].seed =>
            /\ Trajectory(out[i]) = Trajectory(out[j])
            /\ OwnSource(out[i])

\* the rows stored in the order p (a permutation of their indices)
Reordered(rows, p) == [k \in DOMAIN rows |-> rows[p[k]]]

\* the orders a batch's trajectories can be stored in
Orders == Permutations(DOMAIN mc.all_supplies)

RECURSIVE ExactSum(_, _)
\* the unrounded sum of the column's entries at the indices of idx
ExactSum(col, idx) ==
    IF idx = {} THEN Zero
    ELSE LET k == CHOOSE x \in idx : TRUE
         IN  RAdd(col[k], ExactSum(col, idx \ {k}))

\* no addition of a fold over the column rounds, in whatever order: every
\* partial sum is a float
SumsExact(col) ==
    \A idx \in SUBSET (DOMAIN col) : Fl(ExactSum(col, idx)) = ExactSum(col, idx)

\* the squared deviations np.std averages, for the mean m
SquaredDeviations(col, m) ==
    [k \in DOMAIN col |-> FMul(FSub(Fl(col[k]), m), FSub(Fl(col[k]), m))]

\* C10 as claimed: the statistics computed from the trajectories stored in
\* any other order are identical to the ones computed.
C10_AsClaimed ==
    mc.computed = AllStats =>
        \A p \in Orders :
            Statistics(cfg, Reordered(mc.all_supplies, p), Reordered(mc.all_rewards, p))
                = mc.stats

\* C10 amended: the 5th and 95th percentile are identical for every order of
\* the trajectories; the mean and the standard deviation of supply and the
\* mean reward are identical for every order when no addition of their folds
\* rounds (otherwise they agree only up to floating-point rounding).
C10_UpToRounding ==
    mc.computed = AllStats =>
        \A p \in Orders : \A t \in Periods(cfg) :
            LET sup == Column(Reordered(mc.all_supplies, p), t)
                rew == Column(Reordered(mc.all_rewards, p), t)
            IN  /\ Percentile(sup, 5) = mc.stats.percentile_5[t]
                /\ Percentile(sup, 95) = mc.stats.percentile_95[t]
                /\ SumsExact(sup) =>
                      /\ Mean(sup) = mc.stats.mean_supply[t]
                      /\ SumsExact(SquaredDeviations(sup, Mean(sup)))
                            => Std(sup) = mc.stats.std_supply[t]
                /\ SumsExact(rew) => Mean(rew) = mc.stats.mean_reward[t]

\* statistics of a batch whose supplies in some period differ between runs,
\* with sums that do not round and distinct percentiles
C10_Witness ==
    /\ mc.computed = AllStats
    /\ \E t \in Periods(cfg) :
          LET sup == Column(mc.all_supplies, t)
          IN  /\ \E i, j \in DOMAIN sup : sup[i] # sup[j]
              /\ SumsExact(sup)
              /\ SumsExact(SquaredDeviations(sup, Mean(sup)))
              /\ mc.stats.percentile_5[t] # mc.stats.percentile_95[t]
              /\ mc.stats.std_supply[t] # Zero

====
